---------------------------- MODULE Spec2Model ----------------------------
(***************************************************************************)
(* A model of models/PreProcessor.py (class PreProcessor): the parallel    *)
(* threshold scan SkeletonTHFinder with its worker processes, the chunk    *)
(* partition _tasks_distribution, the thresholding SegmentationByTH, the   *)
(* dip finder find_all_minima, the largest-component selection of          *)
(* get_Nlargest_component and the valley selection of                      *)
(* find_suspected_pelvis_loc.                                              *)
(*                                                                         *)
(* Volumes are one-dimensional in the scan and the segmentation (a row of  *)
(* voxels) and two-dimensional in the largest-component selection; the     *)
(* library calls (skimage opening/closing/label, numpy astype/argpartition)*)
(* are modelled by what they compute on such arrays.                       *)
(***************************************************************************)
EXTENDS Integers, Sequences, FiniteSets, TLC

VARIABLES
    \* ---- PreProcessor fields and the frame of SkeletonTHFinder
    resolution,            \* self.resolution (the step between candidates)
    num_cores,             \* multiprocessing.cpu_count()
    img_data,              \* self.img_data, a row of voxel intensities
    castMode,              \* what astype(uint16) does out of range on this build
    pc,                    \* position of SkeletonTHFinder
    ranges,                \* ranges[pid]: the chunk of worker pid
    wpc, wi, wccmps, wimgs,\* per worker: position, loop index, ccmps, img_res
    results,               \* manager.dict(), in insertion order
    p,                     \* loop variable of the aggregation loop
    cmps,                  \* the aggregated component-count curve
    img_threshold_result,  \* the aggregated masks
    dips,                  \* self._dips
    bones,                 \* self.bones
    err,                   \* the exception that ended SkeletonTHFinder
    \* ---- _tasks_distribution on its own
    tdStep, tdCores, tdRanges, tdPc,
    \* ---- SegmentationByTH on its own
    sgData, sgImin, sgImax, sgImg, sgPc,
    \* ---- find_suspected_pelvis_loc
    pvPeaks, pvDeeps, pvDensity, pvX1, pvMinimas, pvLower, pvUpper, pvPc,
    \* ---- get_Nlargest_component
    lcBones, lcLargest, lcClosed, lcPc

scanVars == <<resolution, num_cores, img_data, castMode, pc, ranges, wpc, wi,
              wccmps, wimgs, results, p, cmps, img_threshold_result, dips,
              bones, err>>
tdVars == <<tdStep, tdCores, tdRanges, tdPc>>
sgVars == <<sgData, sgImin, sgImax, sgImg, sgPc>>
pvVars == <<pvPeaks, pvDeeps, pvDensity, pvX1, pvMinimas, pvLower, pvUpper,
            pvPc>>
lcVars == <<lcBones, lcLargest, lcClosed, lcPc>>
vars == <<scanVars, tdVars, sgVars, pvVars, lcVars>>

\* ------------------------------------------------------------------------
\* Program constants
\* ------------------------------------------------------------------------
MAX_VOXEL_VALUE == 65535
ScanLow == 150
ScanSpan == 514 - 150
DefaultImax == 1300
\* None where a mask is expected: no row at all.
None == <<>>
NoError == "None"

\* ------------------------------------------------------------------------
\* Bounds of the model
\* ------------------------------------------------------------------------
MaxWorkers == 4
MaxStep == 12
MaxCoresTD == 9

\* ------------------------------------------------------------------------
\* Sequence helpers
\* ------------------------------------------------------------------------
Max2(a, b) == IF a >= b THEN a ELSE b

RECURSIVE Flatten(_)
Flatten(ss) == IF ss = <<>> THEN <<>> ELSE Head(ss) \o Flatten(Tail(ss))

\* ------------------------------------------------------------------------
\* SegmentationByTH (lines 53-69) on a row of voxels
\* ------------------------------------------------------------------------
CastModes == {"wrap", "saturate"}

\* astype(np.uint16) of one sample.  In range it is the identity; out of
\* range the C conversion is undefined and a build either wraps modulo 2^16
\* or saturates.
AstypeUint16(v, mode) ==
    IF v >= 0 /\ v <= MAX_VOXEL_VALUE THEN v
    ELSE IF mode = "wrap" THEN v % (MAX_VOXEL_VALUE + 1)
    ELSE IF v < 0 THEN 0 ELSE MAX_VOXEL_VALUE

\* Lines 63-65: the conversion, then the two masked assignments.  The second
\* assignment zeroes every sample below MAX_VOXEL_VALUE, so a sample that is
\* already MAX_VOXEL_VALUE after the conversion stays.
ThresholdVoxel(v, Imin, Imax, mode) ==
    LET u == AstypeUint16(v, mode)
        a == IF u <= Imax /\ u > Imin THEN MAX_VOXEL_VALUE ELSE u
    IN  IF a < MAX_VOXEL_VALUE THEN 0 ELSE a

Threshold(data, Imin, Imax, mode) ==
    [i \in 1..Len(data) |-> ThresholdVoxel(data[i], Imin, Imax, mode)]

\* skimage grey erosion / dilation with the default footprint (the centre and
\* its direct neighbours) and reflecting borders: the minimum / maximum over
\* the neighbours that are inside the row.
Nbrs1(i, n) == {j \in {i - 1, i, i + 1} : j >= 1 /\ j <= n}
SetMin(S) == CHOOSE x \in S : \A y \in S : x <= y
SetMax(S) == CHOOSE x \in S : \A y \in S : x >= y
Erosion1(img) ==
    [i \in 1..Len(img) |-> SetMin({img[j] : j \in Nbrs1(i, Len(img))})]
Dilation1(img) ==
    [i \in 1..Len(img) |-> SetMax({img[j] : j \in Nbrs1(i, Len(img))})]
Opening1(img) == Dilation1(Erosion1(img))
Closing1(img) == Erosion1(Dilation1(img))

SegmentationByTH(data, Imin, Imax, mode) ==
    Closing1(Opening1(Threshold(data, Imin, Imax, mode)))

\* skimage.measure.label(img, return_num=True)[1] on a row: the number of
\* maximal runs of equal non-zero samples.
LabelCount(img) ==
    Cardinality({i \in 1..Len(img) :
                    img[i] # 0 /\ (i = 1 \/ img[i - 1] # img[i])})

\* ------------------------------------------------------------------------
\* _tasks_distribution (lines 111-116)
\* ------------------------------------------------------------------------
ChunkSizeAtLeastOne(step, n) == Max2(1, (ScanSpan \div step) \div n)

ChunkSize(step, n) == (ScanSpan \div step) \div n

\* np.arange(start, stop, step) for step > 0
Arange(start, stop, step) ==
    LET n == IF stop <= start THEN 0 ELSE ((stop - start) + step - 1) \div step
    IN  [k \in 1..n |-> start + (k - 1) * step]

TasksDistribution(step, n) ==
    LET d == ChunkSize(step, n)
    IN  [r \in 0..(n - 1) |->
            Arange(ScanLow + r * d * step,
                   ScanLow + r * d * step + d * step, step)]

\* ------------------------------------------------------------------------
\* find_all_minima (lines 179-188)
\* ------------------------------------------------------------------------
RECURSIVE WhereFrom(_, _, _)
\* np.where(cond)[0] over the sliced array: the 0-based positions j, ascending,
\* with cond(j).
WhereFrom(cond, j, n) ==
    IF j >= n THEN <<>>
    ELSE (IF cond[j] THEN <<j>> ELSE <<>>) \o WhereFrom(cond, j + 1, n)

FindAllMinimaNonStrict(c) ==
    LET n == IF Len(c) >= 2 THEN Len(c) - 2 ELSE 0
        cond == [j \in 0..(n - 1) |-> c[j + 2] <= c[j + 1] /\ c[j + 2] <= c[j + 3]]
    IN  WhereFrom(cond, 0, n)

\* minimas[1:-1][j] is c[j+2], minimas[0:-2][j] is c[j+1] and minimas[2:][j]
\* is c[j+3] in 1-based indexing; the positions returned index the slice.
FindAllMinima(c) ==
    LET n == IF Len(c) >= 2 THEN Len(c) - 2 ELSE 0
        cond == [j \in 0..(n - 1) |-> c[j + 2] < c[j + 1] /\ c[j + 2] < c[j + 3]]
    IN  WhereFrom(cond, 0, n)


\* ------------------------------------------------------------------------
\* The volumes and parameters the scan is run on
\* ------------------------------------------------------------------------
Rep(v, n) == [i \in 1..n |-> v]
\* Air, in Hounsfield units.
Air == 0 - 1000

\* Rows of voxels: blobs of bone of one intensity each, separated by air.
\* Decreasing: three blobs that vanish one after the other.
\* OneDip: a blob that vanishes before a second one splits at its bridge.
\* TwoDips: vanish, split, vanish, split.
\* Flat: one blob brighter than every candidate.
VolDecreasing == Rep(200, 2) \o Rep(Air, 3) \o Rep(300, 3) \o Rep(Air, 3) \o Rep(500, 3)
VolOneDip == Rep(230, 2) \o Rep(Air, 3) \o Rep(500, 3) \o Rep(280, 3) \o Rep(500, 3)
VolTwoDips == Rep(170, 2) \o Rep(Air, 3) \o Rep(280, 3) \o Rep(230, 3)
                \o Rep(600, 3) \o Rep(330, 3) \o Rep(600, 3)
VolFlat == Rep(Air, 2) \o Rep(1000, 3) \o Rep(Air, 2)
Volumes == {VolDecreasing, VolOneDip, VolTwoDips, VolFlat}

\* Steps: 52 and 91 give 7 and 4 candidates, 182 gives 2, 400 gives none.
Steps == {52, 91, 182, 400}
Cores == 1..MaxWorkers
Pids == 0..(num_cores - 1)

TdIdle == tdStep = 0 /\ tdCores = 0 /\ tdRanges = <<>> /\ tdPc = "off"
SgIdle == sgData = <<>> /\ sgImin = 0 /\ sgImax = 0 /\ sgImg = <<>> /\ sgPc = "off"
PvIdle == /\ pvPeaks = <<>> /\ pvDeeps = <<>> /\ pvDensity = <<>> /\ pvX1 = 0
          /\ pvMinimas = <<>> /\ pvLower = 0 /\ pvUpper = 0 /\ pvPc = "off"
LcIdle == lcBones = <<>> /\ lcLargest = <<>> /\ lcClosed = <<>> /\ lcPc = "off"
ScanIdle ==
    /\ resolution = 0 /\ num_cores = 0 /\ img_data = <<>>
    /\ pc = "off" /\ ranges = <<>> /\ wpc = <<>> /\ wi = <<>> /\ wccmps = <<>>
    /\ wimgs = <<>> /\ results = <<>> /\ p = 0 /\ cmps = <<>>
    /\ img_threshold_result = <<>> /\ dips = <<>> /\ bones = None /\ err = NoError

\* ------------------------------------------------------------------------
\* SkeletonTHFinder (lines 71-109) and do_segmentation (lines 118-128)
\* ------------------------------------------------------------------------
\* __init__ (lines 21-34): resolution, Imax, _dips = [], bones = None.
Init ==
    /\ resolution \in Steps
    /\ num_cores \in Cores
    /\ img_data \in Volumes
    /\ castMode \in CastModes
    /\ pc = "Idle"
    /\ ranges = <<>>
    /\ wpc = <<>> /\ wi = <<>> /\ wccmps = <<>> /\ wimgs = <<>>
    /\ results = <<>>
    /\ p = 0
    /\ cmps = <<>>
    /\ img_threshold_result = <<>>
    /\ dips = <<>>
    /\ bones = None
    /\ err = NoError
    /\ TdIdle /\ SgIdle /\ PvIdle /\ LcIdle

others == <<tdVars, sgVars, pvVars, lcVars>>
config == <<resolution, num_cores, img_data, castMode>>

\* Line 82: ranges = self._tasks_distribution(num_cores).
Partition ==
    /\ pc = "Idle"
    /\ ranges' = TasksDistribution(resolution, num_cores)
    /\ pc' = "Partitioning"
    /\ UNCHANGED <<config, wpc, wi, wccmps, wimgs, results, p, cmps,
                   img_threshold_result, dips, bones, err, others>>

\* Lines 86-91: the result dictionary, the processes, and their start.
Dispatch ==
    /\ pc = "Partitioning"
    /\ results' = <<>>
    /\ wpc' = [w \in Pids |-> "running"]
    /\ wi' = [w \in Pids |-> 0]
    /\ wccmps' = [w \in Pids |-> <<>>]
    /\ wimgs' = [w \in Pids |-> <<>>]
    /\ pc' = "Dispatched"
    /\ UNCHANGED <<config, ranges, p, cmps, img_threshold_result, dips, bones,
                   err, others>>

\* Lines 121-125: one iteration of the loop of do_segmentation in worker w.
WorkerSegment(w) ==
    /\ pc = "Dispatched"
    /\ wpc[w] = "running"
    /\ wi[w] < Len(ranges[w])
    /\ LET i_min == ranges[w][wi[w] + 1]
           img == SegmentationByTH(img_data, i_min, DefaultImax, castMode)
       IN  /\ wccmps' = [wccmps EXCEPT ![w] = Append(@, LabelCount(img))]
           /\ wimgs' = [wimgs EXCEPT ![w] = Append(@, img)]
    /\ wi' = [wi EXCEPT ![w] = @ + 1]
    /\ UNCHANGED <<config, pc, ranges, wpc, results, p, cmps,
                   img_threshold_result, dips, bones, err, others>>

\* Lines 126-127: dct[pid] = (ccmps, img_res), a new key of the dictionary.
WorkerWrite(w) ==
    /\ pc = "Dispatched"
    /\ wpc[w] = "running"
    /\ wi[w] = Len(ranges[w])
    /\ results' = Append(results, [pid |-> w, ccmps |-> wccmps[w], imgs |-> wimgs[w]])
    /\ wpc' = [wpc EXCEPT ![w] = "done"]
    /\ UNCHANGED <<config, pc, ranges, wi, wccmps, wimgs, p, cmps,
                   img_threshold_result, dips, bones, err, others>>

\* A worker process that dies (an exception, a kill) anywhere before its
\* write: its memory is gone and its slot is never written.
WorkerCrash(w) ==
    /\ pc = "Dispatched"
    /\ wpc[w] = "running"
    /\ wpc' = [wpc EXCEPT ![w] = "crashed"]
    /\ wi' = [wi EXCEPT ![w] = 0]
    /\ wccmps' = [wccmps EXCEPT ![w] = <<>>]
    /\ wimgs' = [wimgs EXCEPT ![w] = <<>>]
    /\ UNCHANGED <<config, pc, ranges, results, p, cmps, img_threshold_result,
                   dips, bones, err, others>>

\* Lines 93-98: join returns once the process has ended, however it ended.
Join ==
    /\ pc = "Dispatched"
    /\ \A w \in Pids : wpc[w] \in {"done", "crashed"}
    /\ pc' = "Joining"
    /\ p' = 0
    /\ cmps' = <<>>
    /\ img_threshold_result' = <<>>
    /\ UNCHANGED <<config, ranges, wpc, wi, wccmps, wimgs, results, dips,
                   bones, err, others>>

\* results[key]: the entries of the dictionary under key, none on a KeyError.
LookupOrEmpty(res, key) ==
    IF \E k \in 1..Len(res) : res[k].pid = key
    THEN SelectSeq(res, LAMBDA e : e.pid = key)
    ELSE <<[pid |-> key, ccmps |-> <<>>, imgs |-> <<>>]>>

Lookup(res, key) == SelectSeq(res, LAMBDA e : e.pid = key)

\* The keys in insertion order (what iterating the dictionary would give).
AggOrderByArrival(res, n) == [k \in 1..Len(res) |-> res[k].pid]

\* Line 99: range(num_cores).
AggOrder(res, n) == [k \in 1..n |-> k - 1]

\* Lines 99-102: one iteration of the aggregation loop.
AggregateStep ==
    /\ pc = "Joining"
    /\ p < Len(AggOrder(results, num_cores))
    /\ LET slot == Lookup(results, AggOrder(results, num_cores)[p + 1])
       IN  IF slot = <<>>
           THEN /\ pc' = "Failed"
                /\ err' = "KeyError"
                /\ UNCHANGED <<p, cmps, img_threshold_result>>
           ELSE /\ cmps' = cmps \o slot[1].ccmps
                /\ img_threshold_result' = img_threshold_result \o slot[1].imgs
                /\ p' = p + 1
                /\ UNCHANGED <<pc, err>>
    /\ UNCHANGED <<config, ranges, wpc, wi, wccmps, wimgs, results, dips,
                   bones, others>>

\* The loop has ended: cmps and img_threshold_result are complete (line 103).
Aggregated ==
    /\ pc = "Joining"
    /\ p = Len(AggOrder(results, num_cores))
    /\ pc' = "Aggregated"
    /\ UNCHANGED <<config, ranges, wpc, wi, wccmps, wimgs, results, p, cmps,
                   img_threshold_result, dips, bones, err, others>>

\* Lines 106-107: find_all_minima(cmps); the histogram leaves _dips as it is.
FindMinima ==
    /\ pc = "Aggregated"
    /\ dips' = FindAllMinima(cmps)
    /\ pc' = "Selecting"
    /\ UNCHANGED <<config, ranges, wpc, wi, wccmps, wimgs, results, p, cmps,
                   img_threshold_result, bones, err, others>>

\* Lines 108-109: self.bones = img_threshold_result[self._dips[0]].
Select ==
    /\ pc = "Selecting"
    /\ IF Len(dips) = 0
       THEN /\ pc' = "Failed"
            /\ err' = "IndexError"
            /\ UNCHANGED bones
       ELSE /\ bones' = img_threshold_result[dips[1] + 1]
            /\ pc' = "Done"
            /\ UNCHANGED err
    /\ UNCHANGED <<config, ranges, wpc, wi, wccmps, wimgs, results, p, cmps,
                   img_threshold_result, dips, others>>

Next ==
    \/ Partition
    \/ Dispatch
    \/ \E w \in Pids : WorkerSegment(w)
    \/ \E w \in Pids : WorkerWrite(w)
    \/ \E w \in Pids : WorkerCrash(w)
    \/ Join
    \/ AggregateStep
    \/ Aggregated
    \/ FindMinima
    \/ Select

Spec == Init /\ [][Next]_vars

\* ------------------------------------------------------------------------
\* Properties of the scan
\* ------------------------------------------------------------------------
\* The k-th candidate of the scan, k = 1, 2, ...
Candidate(k) == ScanLow + (k - 1) * resolution
MaskOf(c) == SegmentationByTH(img_data, c, DefaultImax, castMode)
\* The strict interior local minima of a curve, as 1-based positions.
StrictInteriorMinima(c) ==
    {i \in 2..(Len(c) - 1) : c[i] < c[i - 1] /\ c[i] < c[i + 1]}
AggregationComplete == pc \in {"Aggregated", "Selecting", "Done"}
                       \/ (pc = "Failed" /\ err = "IndexError")
Crashed == {w \in DOMAIN wpc : wpc[w] = "crashed"}

\* C1: whatever the order in which the workers wrote their slots, entry k of
\* cmps and of img_threshold_result is the count and the mask of the k-th
\* candidate 150 + (k-1)*step, and once every worker has finished and the
\* loop has ended the lists hold num_cores chunks.
C1_CandidateOrder ==
    /\ Len(cmps) = Len(img_threshold_result)
    /\ \A k \in 1..Len(cmps) :
          /\ img_threshold_result[k] = MaskOf(Candidate(k))
          /\ cmps[k] = LabelCount(MaskOf(Candidate(k)))
    /\ (AggregationComplete /\ Crashed = {}) =>
          Len(cmps) = num_cores * ChunkSize(resolution, num_cores)

\* C1 witness: three or more workers wrote their slots in an order that is not
\* the worker order, and the aggregated lists hold several distinct masks.
C1_Witness ==
    /\ pc = "Aggregated"
    /\ num_cores >= 3
    /\ Len(results) = num_cores
    /\ results[1].pid = num_cores - 1
    /\ results[num_cores].pid = 0
    /\ Len(cmps) >= 3
    /\ img_threshold_result[1] # img_threshold_result[2]
    /\ img_threshold_result[2] # img_threshold_result[3]

\* C2 (as claimed): _dips is the set of strict interior minima as positions of
\* the curve (0-based, as Python indexes it), and the mask returned is the one
\* at the smallest of them.
C2_DipsIndexCurve ==
    /\ pc \in {"Selecting", "Done"} =>
          {dips[k] : k \in 1..Len(dips)} =
              {i - 1 : i \in StrictInteriorMinima(cmps)}
    /\ pc = "Done" =>
          bones = img_threshold_result[SetMin(StrictInteriorMinima(cmps))]

\* C3: a curve with no strict interior minimum makes the selection fail; Done
\* and an assigned self.bones occur only with a non-empty dip set.
C3_NoDipFails ==
    LET m == StrictInteriorMinima(cmps)
    IN  /\ (pc = "Selecting" /\ m = {}) => dips = <<>>
        /\ pc = "Done" => (m # {} /\ dips # <<>>)
        /\ bones # None => (pc = "Done" /\ m # {})
        /\ (pc = "Failed" /\ err = "IndexError") => (m = {} /\ bones = None)
        /\ (pc \in {"Done", "Failed"} /\ err # "KeyError" /\ m = {}) =>
              (pc = "Failed" /\ err = "IndexError" /\ bones = None)

\* C3 witness: a curve of three or more entries without a strict interior
\* minimum ended the scan in the failure.
C3_Witness ==
    /\ pc = "Failed" /\ err = "IndexError"
    /\ Len(cmps) >= 3
    /\ StrictInteriorMinima(cmps) = {}
    /\ bones = None

\* The curve a scan with n workers aggregates when no worker dies.
ScanCurve(n) ==
    LET c == Flatten([k \in 1..n |-> TasksDistribution(resolution, n)[k - 1]])
    IN  [k \in 1..Len(c) |-> LabelCount(MaskOf(c[k]))]

\* C5 (as claimed): the aggregated curve is as long as the candidates
\* dispatched and is the curve of every other number of workers.
C5_CurveIndependentOfWorkers ==
    pc = "Aggregated" =>
        /\ Len(cmps) = Len(Flatten([k \in 1..num_cores |-> ranges[k - 1]]))
        /\ \A n \in Cores : cmps = ScanCurve(n)

\* C6: with a worker dead before its write, the scan never completes the
\* aggregation (the loop stops at that worker's slot), never computes dips
\* and never returns a mask.
C6_WorkerFailureFailsScan ==
    Crashed # {} =>
        /\ pc \notin {"Aggregated", "Selecting", "Done"}
        /\ dips = <<>>
        /\ bones = None
        /\ pc = "Joining" => \A w \in Crashed : p <= w
        /\ pc = "Failed" => (err = "KeyError" /\ p \in Crashed)

\* C6 witness: the scan failed on the missing slot of a dead worker after it
\* had already taken the chunks of the workers before it.
C6_Witness ==
    /\ pc = "Failed" /\ err = "KeyError"
    /\ p >= 1
    /\ p \in Crashed
    /\ Len(cmps) >= 1

\* C10: with more workers than floor(364 / step) every chunk and every slot is
\* empty, so are the aggregated lists, and the scan cannot reach Done.
C10_TooManyWorkers ==
    num_cores > ScanSpan \div resolution =>
        /\ pc # "Idle" => \A w \in Pids : ranges[w] = <<>>
        /\ \A k \in 1..Len(results) :
              results[k].ccmps = <<>> /\ results[k].imgs = <<>>
        /\ cmps = <<>> /\ img_threshold_result = <<>>
        /\ pc # "Done" /\ bones = None

\* C10 witness: step 182 leaves two candidates; three or more workers all
\* wrote an empty slot and the selection failed.
C10_Witness ==
    /\ resolution < ScanSpan
    /\ num_cores > ScanSpan \div resolution
    /\ Len(results) = num_cores
    /\ pc = "Failed" /\ err = "IndexError"

\* ------------------------------------------------------------------------
\* _tasks_distribution on its own: every step and number of workers
\* ------------------------------------------------------------------------
\* The upper end of the scan in the docstring of SkeletonTHFinder.
DocHigh == 510

InitDist ==
    /\ tdStep \in 1..MaxStep
    /\ tdCores \in 1..MaxCoresTD
    /\ tdRanges = <<>>
    /\ tdPc = "start"
    /\ castMode = "wrap"
    /\ ScanIdle /\ SgIdle /\ PvIdle /\ LcIdle

\* Lines 111-116.
TdDistribute ==
    /\ tdPc = "start"
    /\ tdRanges' = TasksDistribution(tdStep, tdCores)
    /\ tdPc' = "done"
    /\ UNCHANGED <<tdStep, tdCores, scanVars, sgVars, pvVars, lcVars>>

NextDist == TdDistribute

SpecDist == InitDist /\ [][NextDist]_vars

\* The candidates 150, 150 + step, ... strictly below 510.
CandidateList(step) == Arange(ScanLow, DocHigh, step)
IsPrefix(a, b) == Len(a) <= Len(b) /\ \A k \in 1..Len(a) : a[k] = b[k]

\* C4 (as claimed): the chunks are num_cores many, of one size, and their
\* concatenation in worker order is a prefix of the candidates below 510.
C4_ChunksPrefixBelow510 ==
    tdPc = "done" =>
        LET all == Flatten([k \in 1..tdCores |-> tdRanges[k - 1]])
        IN  /\ DOMAIN tdRanges = 0..(tdCores - 1)
            /\ \A r \in DOMAIN tdRanges : Len(tdRanges[r]) = Len(tdRanges[0])
            /\ IsPrefix(all, CandidateList(tdStep))
            /\ \A k \in 1..Len(all) : ScanLow <= all[k] /\ all[k] < DocHigh
            /\ \A j, k \in 1..Len(all) : j # k => all[j] # all[k]

\* ------------------------------------------------------------------------
\* SegmentationByTH on its own: every sample and window
\* ------------------------------------------------------------------------
\* Samples in range, at the sentinel, and out of the 16-bit range on either
\* side (-65036 and 66036 are 500 modulo 2^16, -1 is 65535).
SegSamples == {-65036, -1, 0, 200, 500, 1300, 1301, 65535, 66036}
SegBounds == {200, 500, 1300}
SegLen == 3

InitSeg ==
    /\ sgData \in [1..SegLen -> SegSamples]
    /\ sgImin \in SegBounds
    /\ sgImax \in SegBounds
    /\ sgImg = <<>>
    /\ sgPc = "start"
    /\ castMode \in CastModes
    /\ ScanIdle /\ TdIdle /\ PvIdle /\ LcIdle

\* Lines 63-65.
SgThreshold ==
    /\ sgPc = "start"
    /\ sgImg' = Threshold(sgData, sgImin, sgImax, castMode)
    /\ sgPc' = "thresholded"
    /\ UNCHANGED <<sgData, sgImin, sgImax, scanVars, tdVars, pvVars, lcVars>>

\* Lines 66-69.
SgMorphology ==
    /\ sgPc = "thresholded"
    /\ sgImg' = Closing1(Opening1(sgImg))
    /\ sgPc' = "returned"
    /\ UNCHANGED <<sgData, sgImin, sgImax, scanVars, tdVars, pvVars, lcVars>>

NextSeg == SgThreshold \/ SgMorphology

SpecSeg == InitSeg /\ [][NextSeg]_vars

\* C7 (as claimed): after the thresholding a voxel is 65535 exactly when its
\* intensity v has Imin < v <= Imax, and 0 otherwise; with Imax <= Imin the
\* returned mask is all zero.
C7_WindowExact ==
    /\ sgPc = "thresholded" =>
          \A i \in 1..Len(sgData) :
              sgImg[i] = IF sgImin < sgData[i] /\ sgData[i] <= sgImax
                         THEN MAX_VOXEL_VALUE ELSE 0
    /\ (sgPc = "returned" /\ sgImax <= sgImin) =>
          \A i \in 1..Len(sgImg) : sgImg[i] = 0

\* ------------------------------------------------------------------------
\* find_suspected_pelvis_loc (lines 130-156)
\* ------------------------------------------------------------------------
PeakDistance == 150
ValleyDistance == 200
MaxSlot == 5
\* The slices at which find_peaks may report a peak or a valley: far enough
\* apart for both distances.
Slices == {ValleyDistance * k : k \in 1..MaxSlot}
PeakDensities == {40, 50, 60}
ValleyDensities == {5, 10, 20, 30}

RECURSIVE SortedSeq(_)
SortedSeq(S) == IF S = {} THEN <<>>
                ELSE LET m == SetMin(S) IN <<m>> \o SortedSeq(S \ {m})
Range(q) == {q[k] : k \in 1..Len(q)}
Reverse(q) == [k \in 1..Len(q) |-> q[Len(q) + 1 - k]]

\* np.argpartition(a, -2): the permutations of the positions of a that put
\* the second largest value in its sorted place, nothing larger before it and
\* nothing smaller after it.  The order of the others is not specified.
ArgPartition2(a) ==
    LET n == Len(a)
    IN  {q \in [1..n -> 1..n] :
            /\ Range(q) = 1..n
            /\ \A i \in 1..(n - 2) : a[q[i]] <= a[q[n - 1]]
            /\ a[q[n - 1]] <= a[q[n]]}

\* Line 139 without the reversal [::-1].
MinimasNotReversed(deeps, q) == [k \in 1..Len(q) |-> deeps[q[k]]]

\* Line 139: minimas = deeps[argpartition(...)[::-1]].
Minimas(deeps, q) == [k \in 1..Len(q) |-> deeps[Reverse(q)[k]]]

\* np.argwhere(cond)[0]: the first position of minimas that satisfies cond,
\* as a one-element array (lines 142-143).
Below(minimas, x) == SelectSeq(minimas, LAMBDA v : v < x)
Above(minimas, x) == SelectSeq(minimas, LAMBDA v : v > x)
FirstOf(q) == <<q[1]>>

\* Lines 147-150 and 152-155: the loops over consecutive pairs; a ratio above
\* (below) 1.5 is 2*a > 3*b (2*a < 3*b).
RECURSIVE RefineUpper(_, _, _)
RefineUpper(ub, u, bound) ==
    IF u > Len(ub) - 1 THEN bound
    ELSE RefineUpper(ub, u + 1,
                     IF 2 * ub[u] > 3 * ub[u + 1] THEN ub[u + 1] ELSE bound)
RECURSIVE RefineLower(_, _, _)
RefineLower(lb, l, bound) ==
    IF l > Len(lb) - 1 THEN bound
    ELSE RefineLower(lb, l + 1,
                     IF 2 * lb[l] < 3 * lb[l + 1] THEN lb[l + 1] ELSE bound)

\* The peaks and valleys find_peaks reports (lines 132-133): ascending slice
\* indices, peaks at least 150 and valleys at least 200 apart, with the
\* density at each.  No two peaks and no two valleys have the same density, so
\* that the two largest values argpartition puts last are determined.
InitPelvis ==
    /\ \E P \in SUBSET Slices : \E V \in SUBSET (Slices \ P) :
          /\ pvPeaks = SortedSeq(P)
          /\ pvDeeps = SortedSeq(V)
          /\ pvDensity \in {f \in [P \cup V -> PeakDensities \cup ValleyDensities] :
                               /\ \A x \in P : f[x] \in PeakDensities
                               /\ \A x \in V : f[x] \in ValleyDensities}
          /\ \A a, b \in P : a < b => b - a >= PeakDistance
          /\ \A a, b \in V : a < b => b - a >= ValleyDistance
          /\ \A a, b \in P : a # b => pvDensity[a] # pvDensity[b]
          /\ \A a, b \in V : a # b => pvDensity[a] # pvDensity[b]
    /\ pvX1 = 0 /\ pvMinimas = <<>> /\ pvLower = 0 /\ pvUpper = 0
    /\ pvPc = "start"
    /\ castMode = "wrap"
    /\ ScanIdle /\ TdIdle /\ SgIdle /\ LcIdle

pvInputs == <<pvPeaks, pvDeeps, pvDensity>>
pvRest == <<scanVars, tdVars, sgVars, lcVars>>
PeakValues == [k \in 1..Len(pvPeaks) |-> pvDensity[pvPeaks[k]]]
NegValleyValues == [k \in 1..Len(pvDeeps) |-> (-1) * pvDensity[pvDeeps[k]]]

\* Lines 136, 139: argpartition with kth = -2 raises ValueError on fewer than
\* two elements.
PvTooFew ==
    /\ pvPc = "start"
    /\ Len(pvPeaks) < 2 \/ Len(pvDeeps) < 2
    /\ pvPc' = "ValueError"
    /\ UNCHANGED <<pvInputs, pvX1, pvMinimas, pvLower, pvUpper, pvRest>>

\* Lines 142-143: argwhere(...)[0] raises IndexError with no valley on a side.
PvNoValleyOnASide ==
    /\ pvPc = "start"
    /\ Len(pvPeaks) >= 2 /\ Len(pvDeeps) >= 2
    /\ \E qp \in ArgPartition2(PeakValues) :
       \E qd \in ArgPartition2(NegValleyValues) :
          LET x1_max == pvPeaks[qp[Len(qp)]]
              minimas == Minimas(pvDeeps, qd)
          IN  /\ Below(minimas, x1_max) = <<>> \/ Above(minimas, x1_max) = <<>>
              /\ pvX1' = x1_max
              /\ pvMinimas' = minimas
    /\ pvPc' = "IndexError"
    /\ UNCHANGED <<pvInputs, pvLower, pvUpper, pvRest>>

\* Lines 136-156 when every step succeeds.
PvLocate ==
    /\ pvPc = "start"
    /\ Len(pvPeaks) >= 2 /\ Len(pvDeeps) >= 2
    /\ \E qp \in ArgPartition2(PeakValues) :
       \E qd \in ArgPartition2(NegValleyValues) :
          LET x1_max == pvPeaks[qp[Len(qp)]]
              minimas == Minimas(pvDeeps, qd)
          IN  /\ Below(minimas, x1_max) # <<>>
              /\ Above(minimas, x1_max) # <<>>
              /\ LET lower_bounds == FirstOf(Below(minimas, x1_max))
                     upper_bounds == FirstOf(Above(minimas, x1_max))
                 IN  /\ pvUpper' = RefineUpper(upper_bounds, 1, upper_bounds[1])
                     /\ pvLower' = RefineLower(lower_bounds, 1, lower_bounds[1])
              /\ pvX1' = x1_max
              /\ pvMinimas' = minimas
    /\ pvPc' = "returned"
    /\ UNCHANGED <<pvInputs, pvRest>>

NextPelvis == PvTooFew \/ PvNoValleyOnASide \/ PvLocate

SpecPelvis == InitPelvis /\ [][NextPelvis]_vars

ValleysBelow == {v \in Range(pvDeeps) : v < pvX1}
ValleysAbove == {v \in Range(pvDeeps) : v > pvX1}
MinDensity(S) == SetMin({pvDensity[v] : v \in S})

\* C8 (as claimed): lower_bound is the valley closest to x1 from below and
\* upper_bound the valley closest to x1 from above.
C8_ClosestValleys ==
    pvPc = "returned" =>
        /\ pvLower = SetMax(ValleysBelow)
        /\ pvUpper = SetMin(ValleysAbove)

\* C8 (amended): lower_bound is a detected valley below x1 and upper_bound one
\* above x1, each the first valley of its side in the order of minimas
\* (deepest first): it has the lowest density of its side whenever at most one
\* valley of the other side is as deep or deeper, and it is the closest one
\* when it is the only valley of its side.
C8_DeepestFirstValleys ==
    pvPc = "returned" =>
        /\ pvLower \in ValleysBelow
        /\ pvUpper \in ValleysAbove
        /\ Cardinality({v \in ValleysAbove :
                           pvDensity[v] <= MinDensity(ValleysBelow)}) <= 1
              => pvDensity[pvLower] = MinDensity(ValleysBelow)
        /\ Cardinality({v \in ValleysBelow :
                           pvDensity[v] <= MinDensity(ValleysAbove)}) <= 1
              => pvDensity[pvUpper] = MinDensity(ValleysAbove)
        /\ Cardinality(ValleysBelow) = 1 => pvLower = SetMax(ValleysBelow)
        /\ Cardinality(ValleysAbove) = 1 => pvUpper = SetMin(ValleysAbove)

\* C8 witness: two valleys below x1, the farther one deeper, and lower_bound is
\* the farther one.
C8_Witness ==
    /\ pvPc = "returned"
    /\ Cardinality(ValleysBelow) >= 2
    /\ pvLower # SetMax(ValleysBelow)
    /\ pvDensity[pvLower] < pvDensity[SetMax(ValleysBelow)]

\* ------------------------------------------------------------------------
\* get_Nlargest_component (lines 203-206) on a two-dimensional mask
\* ------------------------------------------------------------------------
GridRows == 2
GridCols == 4
Cells == (1..GridRows) \X (1..GridCols)
\* The position of a cell in labels.flat (row-major).
Flat(c) == (c[1] - 1) * GridCols + c[2]
Count(img) == Cardinality({c \in Cells : img[c] # 0})
Foreground(img) == {c \in Cells : img[c] # 0}

\* skimage.measure.label with its default connectivity (the full
\* neighbourhood): cells are connected through side or corner neighbours of
\* the same value.
Adjacent8(a, b) ==
    /\ a # b
    /\ a[1] - b[1] \in {-1, 0, 1}
    /\ a[2] - b[2] \in {-1, 0, 1}
RECURSIVE Grow(_, _)
Grow(S, fg) ==
    LET T == S \cup {c \in fg : \E d \in S : Adjacent8(c, d)}
    IN  IF T = S THEN S ELSE Grow(T, fg)
RECURSIVE ComponentsOf(_)
ComponentsOf(fg) ==
    IF fg = {} THEN {}
    ELSE LET first == CHOOSE c \in fg : \A d \in fg : Flat(c) <= Flat(d)
             comp == Grow({first}, fg)
         IN  {comp} \cup ComponentsOf(fg \ comp)
Components(img) == ComponentsOf(Foreground(img))
FirstCell(comp) == SetMin({Flat(c) : c \in comp})
\* Labels 1, 2, ... in the order in which the scan of the array meets the
\* components; 0 is the background.
Labels(img) ==
    LET comps == Components(img)
        rank == [comp \in comps |->
                    1 + Cardinality({o \in comps : FirstCell(o) < FirstCell(comp)})]
    IN  [c \in Cells |->
            IF img[c] = 0 THEN 0
            ELSE rank[CHOOSE comp \in comps : c \in comp]]
\* np.bincount(labels.flat)[1:]: the voxel count of each label 1, 2, ...
BinCountFrom1(labels) ==
    [k \in 1..SetMax({labels[c] : c \in Cells}) |->
        Cardinality({c \in Cells : labels[c] = k})]
\* np.argmax: the first (0-based) position of the maximum.
ArgMax(a) == SetMin({k \in 1..Len(a) : \A j \in 1..Len(a) : a[j] <= a[k]}) - 1

\* Line 204 without the "+ 1".
LargestCCNoOffset(labels) ==
    LET largest == ArgMax(BinCountFrom1(labels))
    IN  [c \in Cells |-> labels[c] = largest]

\* Line 204: labels == np.argmax(np.bincount(labels.flat)[1:]) + 1.
LargestCC(labels) ==
    LET largest == ArgMax(BinCountFrom1(labels)) + 1
    IN  [c \in Cells |-> labels[c] = largest]

\* Line 205: self.bones * largestCC.
Times(img, flags) == [c \in Cells |-> IF flags[c] THEN img[c] ELSE 0]

\* skimage closing with the default footprint (a cell and its four side
\* neighbours) and reflecting borders.
Nbrs4(c) == {d \in Cells : (d[1] = c[1] /\ d[2] - c[2] \in {-1, 0, 1})
                           \/ (d[2] = c[2] /\ d[1] - c[1] \in {-1, 0, 1})}
Erosion2(img) == [c \in Cells |-> SetMin({img[d] : d \in Nbrs4(c)})]
Dilation2(img) == [c \in Cells |-> SetMax({img[d] : d \in Nbrs4(c)})]
Closing2(img) == Erosion2(Dilation2(img))

InitLCC ==
    /\ lcBones \in [Cells -> {0, MAX_VOXEL_VALUE}]
    /\ lcLargest = <<>>
    /\ lcClosed = <<>>
    /\ lcPc = "start"
    /\ castMode = "wrap"
    /\ ScanIdle /\ TdIdle /\ SgIdle /\ PvIdle

lcRest == <<scanVars, tdVars, sgVars, pvVars>>

\* Line 204 on an all-background mask: argmax of an empty sequence.
LcEmpty ==
    /\ lcPc = "start"
    /\ Foreground(lcBones) = {}
    /\ lcPc' = "ValueError"
    /\ UNCHANGED <<lcBones, lcLargest, lcClosed, lcRest>>

\* Lines 203-205.
LcSelect ==
    /\ lcPc = "start"
    /\ Foreground(lcBones) # {}
    /\ lcLargest' = Times(lcBones, LargestCC(Labels(lcBones)))
    /\ lcPc' = "selected"
    /\ UNCHANGED <<lcBones, lcClosed, lcRest>>

\* Line 206.
LcClose ==
    /\ lcPc = "selected"
    /\ lcClosed' = Closing2(lcLargest)
    /\ lcPc' = "closed"
    /\ UNCHANGED <<lcBones, lcLargest, lcRest>>

NextLCC == LcEmpty \/ LcSelect \/ LcClose

SpecLCC == InitLCC /\ [][NextLCC]_vars

\* C9 (as claimed): the result after the closing has at most as many non-zero
\* voxels as the mask has foreground voxels, with equality exactly when the
\* mask is one connected component.
C9_ClosedCountBound ==
    lcPc = "closed" =>
        /\ Count(lcClosed) <= Count(lcBones)
        /\ Count(lcClosed) = Count(lcBones) <=>
              Cardinality(Components(lcBones)) = 1

\* C9 (amended): the bound and the equality hold of the largest component
\* before the closing (bones * largestCC, a sub-mask of the mask); the closing
\* keeps every voxel of it and may add voxels.
C9_LargestCountBound ==
    /\ lcPc \in {"selected", "closed"} =>
          LET comps == Components(lcBones)
          IN  /\ \A c \in Cells : lcLargest[c] \in {0, lcBones[c]}
              /\ Count(lcLargest) <= Count(lcBones)
              /\ Count(lcLargest) = Count(lcBones) <=> Cardinality(comps) = 1
              /\ \A comp \in comps : Cardinality(comp) <= Count(lcLargest)
    /\ lcPc = "closed" =>
          \A c \in Cells : lcLargest[c] # 0 => lcClosed[c] = lcLargest[c]

\* C9 witness: a mask of several components whose largest one gained voxels
\* in the closing.
C9_Witness ==
    /\ lcPc = "closed"
    /\ Cardinality(Components(lcBones)) >= 2
    /\ Count(lcLargest) < Count(lcBones)
    /\ Count(lcClosed) > Count(lcLargest)

=============================================================================
